---- MODULE Spec2Model ----
(***************************************************************************)
(* Model of the command-execution coordinator of gio-plumbing:             *)
(* src/plumbing/pretty.rs, main() and prepare_and_run().                   *)
(*                                                                         *)
(* Three threads take part in Dashboard mode: the coordinator (the caller  *)
(* of prepare_and_run), the dashboard thread (ui_handle) and the           *)
(* computation thread.  The operator, the computation closure and the      *)
(* dashboard event loop are the environment; they are modelled by          *)
(* nondeterministic steps.                                                 *)
(***************************************************************************)
EXTENDS Integers, Sequences, FiniteSets, TLC

\* ---------------------------------------------------------------- bounds
MaxLen == 1      \* most bytes the computation writes to one sink
MaxByte == 1     \* bytes are drawn from 0..MaxByte
MaxVal == 2      \* Success values are 1..MaxVal
MaxErr == 1      \* Failure values are 1..MaxErr

Byte == 0..MaxByte

\* ------------------------------------------------------- values and types
\* sync_channel::<Event<T>>(1)
ChannelCapacity == 1

Success(v) == [kind |-> "Success", val |-> v]
Failure(e) == [kind |-> "Failure", val |-> e]

\* Every Result<T> the closure `run` can return.
ClosureResults == {Success(v) : v \in 1..MaxVal} \cup {Failure(e) : e \in 1..MaxErr}

NoResult == [kind |-> "None", val |-> 0]
Cancelled == [kind |-> "Cancelled", val |-> 0]
CommError == [kind |-> "CommunicationError", val |-> 0]
IoError == [kind |-> "IoError", val |-> 0]

UIDone == [kind |-> "UIDone", res |-> NoResult, out |-> <<>>, err |-> <<>>]

\* ComputationDone with the two buffers in each other's place.
ComputationDoneSwapped(r, o, e) == [kind |-> "ComputationDone", res |-> r, out |-> e, err |-> o]

ComputationDone(r, o, e) == [kind |-> "ComputationDone", res |-> r, out |-> o, err |-> e]

VARIABLES
  verbose, progress, progress_keep_open,  \* the command line flags
  pc,            \* position of the coordinator (main thread)
  ui,            \* position of the dashboard thread
  comp,          \* position of the computation thread
  chan,          \* events sent on the sync_channel and not yet received
  rx_alive,      \* the Receiver has not been dropped
  sub_progress,  \* "none", "live" (item is in the progress tree), "dropped"
  user_exit,     \* the operator asked the dashboard to exit
  res,           \* what the closure returned
  out, err,      \* bytes the closure wrote to its stdout / stderr sink
  real_stdout, real_stderr,  \* bytes on the process's real streams
  received,      \* what rx.recv() returned to the coordinator
  retval,        \* what prepare_and_run returned
  renderer,      \* line renderer handle: "none", "alive", "dropped"
  threads,       \* threads started so far, in order
  invocations,   \* how often the closure was invoked
  sent,          \* kinds of the events whose send completed, in order
  hist           \* facts recorded at the moment of a step (history)

vars == <<verbose, progress, progress_keep_open, pc, ui, comp, chan, rx_alive,
          sub_progress, user_exit, res, out, err, real_stdout, real_stderr,
          received, retval, renderer, threads, invocations, sent, hist>>

flags == <<verbose, progress, progress_keep_open>>
streams == <<real_stdout, real_stderr>>
sinks == <<out, err>>

\* exit_at_return: the operator had asked for exit when the closure returned
\* exit_at_recv:   the operator had asked for exit when rx.recv() returned
NoHist == [exit_at_return |-> FALSE, exit_at_recv |-> FALSE]

Init ==
  /\ verbose \in BOOLEAN
  /\ progress \in BOOLEAN
  /\ progress_keep_open \in BOOLEAN
  /\ pc = "from_args"
  /\ ui = "unspawned"
  /\ comp = "unspawned"
  /\ chan = <<>>
  /\ rx_alive = FALSE
  /\ sub_progress = "none"
  /\ user_exit = FALSE
  /\ res = NoResult
  /\ out = <<>>
  /\ err = <<>>
  /\ real_stdout = <<>>
  /\ real_stderr = <<>>
  /\ received = NoResult
  /\ retval = NoResult
  /\ renderer = "none"
  /\ threads = <<>>
  /\ invocations = 0
  /\ sent = <<>>
  /\ hist = NoHist

\* ------------------------------------------------------------- main()
\* The schema without `conflicts_with("verbose")` on --progress.
ArgsConflictNoProgressRule(v, p, k) ==
  \/ (k /\ v)
  \/ (k /\ ~p)

\* structopt: progress conflicts_with verbose; progress_keep_open
\* conflicts_with verbose and requires progress.
ArgsConflict(v, p, k) ==
  \/ (p /\ v)
  \/ (k /\ v)
  \/ (k /\ ~p)

\* Args::from_args(): prints a usage error and exits the process on a
\* conflict, otherwise main goes on to call prepare_and_run.
FromArgs ==
  /\ pc = "from_args"
  /\ pc' = IF ArgsConflict(verbose, progress, progress_keep_open)
             THEN "usage_error" ELSE "prepare_and_run"
  /\ UNCHANGED <<flags, ui, comp, chan, rx_alive, sub_progress, user_exit, res,
                 sinks, streams, received, retval, renderer, threads,
                 invocations, sent, hist>>

\* ---------------------------------------------------- prepare_and_run()
\* The match with the (true, true) arm missing from the Dashboard arm's
\* pattern and --verbose alone treated like --progress.
StrategyVerboseIsDashboard(v, p) ==
  IF p \/ v THEN "Dashboard" ELSE "Direct"

\* match (verbose, progress)
Strategy(v, p) ==
  IF p THEN "Dashboard"
  ELSE IF v THEN "Line" ELSE "Direct"

\* crate::shared::setup_line_renderer: the threads the line renderer starts.
setup_line_renderer == <<"line_renderer">>

\* The Direct arm handing the closure a progress item.
EnterDirectWithProgress ==
  /\ pc = "prepare_and_run"
  /\ Strategy(verbose, progress) = "Direct"
  /\ pc' = "run"
  /\ sub_progress' = "live"
  /\ invocations' = invocations + 1
  /\ UNCHANGED <<flags, ui, comp, chan, rx_alive, user_exit, res,
                 sinks, streams, received, retval, renderer, threads, sent, hist>>

\* (false, false) => run(None, &mut stdout(), &mut stderr()): the closure is
\* entered on the calling thread, without a progress item.
EnterDirect ==
  /\ pc = "prepare_and_run"
  /\ Strategy(verbose, progress) = "Direct"
  /\ pc' = "run"
  /\ invocations' = invocations + 1
  /\ UNCHANGED <<flags, ui, comp, chan, rx_alive, sub_progress, user_exit, res,
                 sinks, streams, received, retval, renderer, threads, sent, hist>>

\* The renderer handle bound to `_`, and so dropped at once.
EnterLineDropsHandle ==
  /\ pc = "prepare_and_run"
  /\ Strategy(verbose, progress) = "Line"
  /\ sub_progress' = "live"
  /\ renderer' = "dropped"
  /\ threads' = threads \o setup_line_renderer
  /\ pc' = "run"
  /\ invocations' = invocations + 1
  /\ UNCHANGED <<flags, ui, comp, chan, rx_alive, user_exit, res, sinks,
                 streams, received, retval, sent, hist>>

\* (true, false) => tree, child item, line renderer, then the closure is
\* entered on the calling thread with Some(sub_progress).
EnterLine ==
  /\ pc = "prepare_and_run"
  /\ Strategy(verbose, progress) = "Line"
  /\ sub_progress' = "live"
  /\ renderer' = "alive"
  /\ threads' = threads \o setup_line_renderer
  /\ pc' = "run"
  /\ invocations' = invocations + 1
  /\ UNCHANGED <<flags, ui, comp, chan, rx_alive, user_exit, res, sinks,
                 streams, received, retval, sent, hist>>

\* The closure, running on the calling thread, writes one byte to its stdout
\* sink, which is the real stdout.
RunWriteOut ==
  /\ pc = "run"
  /\ Len(out) < MaxLen
  /\ \E b \in Byte :
       /\ out' = Append(out, b)
       /\ real_stdout' = Append(real_stdout, b)
  /\ UNCHANGED <<flags, pc, ui, comp, chan, rx_alive, sub_progress, user_exit,
                 res, err, real_stderr, received, retval, renderer, threads,
                 invocations, sent, hist>>

\* The same for its stderr sink, which is the real stderr.
RunWriteErr ==
  /\ pc = "run"
  /\ Len(err) < MaxLen
  /\ \E b \in Byte :
       /\ err' = Append(err, b)
       /\ real_stderr' = Append(real_stderr, b)
  /\ UNCHANGED <<flags, pc, ui, comp, chan, rx_alive, sub_progress, user_exit,
                 res, out, real_stdout, received, retval, renderer, threads,
                 invocations, sent, hist>>

\* The closure returns on the calling thread; its result is the value of the
\* match arm and so of prepare_and_run.  The progress item it owned and the
\* renderer handle (_handle) go out of scope.
RunReturn ==
  /\ pc = "run"
  /\ \E r \in ClosureResults :
       /\ res' = r
       /\ retval' = r
  /\ sub_progress' = IF sub_progress = "live" THEN "dropped" ELSE sub_progress
  /\ renderer' = IF renderer = "alive" THEN "dropped" ELSE renderer
  /\ pc' = "returned"
  /\ UNCHANGED <<flags, ui, comp, chan, rx_alive, user_exit, sinks, streams,
                 received, threads, invocations, sent, hist>>

\* (true, true) | (false, true) => tree, child item, prodash::tui::render and
\* sync_channel(1).
EnterDashboard ==
  /\ pc = "prepare_and_run"
  /\ Strategy(verbose, progress) = "Dashboard"
  /\ sub_progress' = "live"
  /\ rx_alive' = TRUE
  /\ chan' = <<>>
  /\ pc' = "spawn_ui"
  /\ UNCHANGED <<flags, ui, comp, user_exit, res, sinks, streams, received,
                 retval, renderer, threads, invocations, sent, hist>>

\* let ui_handle = std::thread::spawn(..)
SpawnUi ==
  /\ pc = "spawn_ui"
  /\ ui' = "running"
  /\ threads' = Append(threads, "ui")
  /\ pc' = "spawn_computation"
  /\ UNCHANGED <<flags, comp, chan, rx_alive, sub_progress, user_exit, res,
                 sinks, streams, received, retval, renderer, invocations, sent,
                 hist>>

\* The closure called by the coordinator itself instead of on a new thread.
SpawnComputationOnCaller ==
  /\ pc = "spawn_computation"
  /\ comp' = "running"
  /\ invocations' = invocations + 1
  /\ pc' = "recv"
  /\ UNCHANGED <<flags, ui, chan, rx_alive, sub_progress, user_exit, res, sinks,
                 streams, received, retval, renderer, threads, sent, hist>>

\* std::thread::spawn(move || { .. run(Some(sub_progress), &mut out, &mut err) .. })
SpawnComputation ==
  /\ pc = "spawn_computation"
  /\ comp' = "running"
  /\ threads' = Append(threads, "computation")
  /\ invocations' = invocations + 1
  /\ pc' = "recv"
  /\ UNCHANGED <<flags, ui, chan, rx_alive, sub_progress, user_exit, res, sinks,
                 streams, received, retval, renderer, sent, hist>>

\* A thread has ended and with it its Sender.
Ended(t) == t \in {"done", "panicked"}

\* The match with the UIDone arm falling through to the wildcard arm.
OnEventUiDoneIsCommError(ev) ==
  IF ev.kind = "UIDone"
    THEN [pc |-> "returned", retval |-> CommError]
    ELSE [pc |-> "join", retval |-> NoResult]

\* The match with the UIDone arm waiting and flushing like the
\* ComputationDone arm.
OnEventUiDoneJoins(ev) ==
  [pc |-> "join", retval |-> NoResult]

\* What the match on rx.recv() makes of the event: the next position of the
\* coordinator and the value returned, if it returns at once.
OnEvent(ev) ==
  IF ev.kind = "UIDone"
    THEN [pc |-> "returned", retval |-> Cancelled]
    ELSE [pc |-> "join", retval |-> NoResult]

\* The receive leaving the event it returns in the channel.
RecvEventPeek ==
  /\ pc = "recv"
  /\ chan # <<>>
  /\ received' = Head(chan)
  /\ pc' = OnEvent(Head(chan)).pc
  /\ retval' = OnEvent(Head(chan)).retval
  /\ IF OnEvent(Head(chan)).pc = "returned"
       THEN rx_alive' = FALSE /\ chan' = <<>>
       ELSE rx_alive' = TRUE /\ chan' = chan
  /\ hist' = [hist EXCEPT !.exit_at_recv = user_exit]
  /\ UNCHANGED <<flags, ui, comp, sub_progress, user_exit, res, sinks, streams,
                 renderer, threads, invocations, sent>>

\* match rx.recv(): an event is taken from the channel.
RecvEvent ==
  /\ pc = "recv"
  /\ chan # <<>>
  /\ received' = Head(chan)
  /\ pc' = OnEvent(Head(chan)).pc
  /\ retval' = OnEvent(Head(chan)).retval
  /\ IF OnEvent(Head(chan)).pc = "returned"
       THEN rx_alive' = FALSE /\ chan' = <<>>
       ELSE rx_alive' = TRUE /\ chan' = Tail(chan)
  /\ hist' = [hist EXCEPT !.exit_at_recv = user_exit]
  /\ UNCHANGED <<flags, ui, comp, sub_progress, user_exit, res, sinks, streams,
                 renderer, threads, invocations, sent>>

\* The wildcard arm reporting a cancellation.
RecvDisconnectedAsCancelled ==
  /\ pc = "recv"
  /\ chan = <<>>
  /\ Ended(ui)
  /\ Ended(comp)
  /\ retval' = Cancelled
  /\ pc' = "returned"
  /\ rx_alive' = FALSE
  /\ hist' = [hist EXCEPT !.exit_at_recv = user_exit]
  /\ UNCHANGED <<flags, ui, comp, chan, sub_progress, user_exit, res, sinks,
                 streams, received, renderer, threads, invocations, sent>>

\* match rx.recv(): Err(RecvError), the channel is empty and every Sender is
\* gone.
RecvDisconnected ==
  /\ pc = "recv"
  /\ chan = <<>>
  /\ Ended(ui)
  /\ Ended(comp)
  /\ retval' = CommError
  /\ pc' = "returned"
  /\ rx_alive' = FALSE
  /\ hist' = [hist EXCEPT !.exit_at_recv = user_exit]
  /\ UNCHANGED <<flags, ui, comp, chan, sub_progress, user_exit, res, sinks,
                 streams, received, renderer, threads, invocations, sent>>

\* The coordinator going on without ui_handle.join().
JoinUiNoWait ==
  /\ pc = "join"
  /\ pc' = "write_stdout"
  /\ UNCHANGED <<flags, ui, comp, chan, rx_alive, sub_progress, user_exit, res,
                 sinks, streams, received, retval, renderer, threads,
                 invocations, sent, hist>>

\* ui_handle.join().ok(): waits for the dashboard thread to end, however it
\* ended.
JoinUi ==
  /\ pc = "join"
  /\ Ended(ui)
  /\ pc' = "write_stdout"
  /\ UNCHANGED <<flags, ui, comp, chan, rx_alive, sub_progress, user_exit, res,
                 sinks, streams, received, retval, renderer, threads,
                 invocations, sent, hist>>

\* The strict prefixes of s: what a failed write_all may have written.
StrictPrefixes(s) == {SubSeq(s, 1, n) : n \in 0..(Len(s) - 1)}

\* stdout().write_all(&out)?
WriteStdout ==
  /\ pc = "write_stdout"
  /\ \/ /\ real_stdout' = real_stdout \o received.out
        /\ pc' = "write_stderr"
        /\ UNCHANGED <<retval, rx_alive, chan>>
     \/ \E written \in StrictPrefixes(received.out) :
          /\ real_stdout' = real_stdout \o written
          /\ retval' = IoError
          /\ pc' = "returned"
          /\ rx_alive' = FALSE
          /\ chan' = <<>>
  /\ UNCHANGED <<flags, ui, comp, sub_progress, user_exit, res, sinks,
                 real_stderr, received, renderer, threads, invocations, sent,
                 hist>>

\* stderr().write_all(&err)?
WriteStderr ==
  /\ pc = "write_stderr"
  /\ \/ /\ real_stderr' = real_stderr \o received.err
        /\ pc' = "result"
        /\ UNCHANGED <<retval, rx_alive, chan>>
     \/ \E written \in StrictPrefixes(received.err) :
          /\ real_stderr' = real_stderr \o written
          /\ retval' = IoError
          /\ pc' = "returned"
          /\ rx_alive' = FALSE
          /\ chan' = <<>>
  /\ UNCHANGED <<flags, ui, comp, sub_progress, user_exit, res, sinks,
                 real_stdout, received, renderer, threads, invocations, sent,
                 hist>>

\* `res`: the value of the ComputationDone arm; rx goes out of scope.
ReturnRes ==
  /\ pc = "result"
  /\ retval' = received.res
  /\ pc' = "returned"
  /\ rx_alive' = FALSE
  /\ chan' = <<>>
  /\ UNCHANGED <<flags, ui, comp, sub_progress, user_exit, res, sinks, streams,
                 received, renderer, threads, invocations, sent, hist>>

\* ------------------------------------------------------ dashboard thread
\* stop_if_empty_progress set whatever the flag says.
stop_if_empty_progress_always(keep_open) == TRUE

\* stop_if_empty_progress never set.
stop_if_empty_progress_never(keep_open) == FALSE

\* stop_if_empty_progress: !progress_keep_open
stop_if_empty_progress(keep_open) == ~keep_open

\* The operator presses a key that asks the dashboard to exit.
OperatorExit ==
  /\ ui = "running"
  /\ ~user_exit
  /\ user_exit' = TRUE
  /\ UNCHANGED <<flags, pc, ui, comp, chan, rx_alive, sub_progress, res, sinks,
                 streams, received, retval, renderer, threads, invocations,
                 sent, hist>>

\* smol::run(render_tui) returns: the operator asked for it, or the progress
\* tree is empty and the dashboard was told to stop then.
UiLoopExit ==
  /\ ui = "running"
  /\ \/ user_exit
     \/ stop_if_empty_progress(progress_keep_open) /\ sub_progress # "live"
  /\ ui' = "exited"
  /\ UNCHANGED <<flags, pc, comp, chan, rx_alive, sub_progress, user_exit, res,
                 sinks, streams, received, retval, renderer, threads,
                 invocations, sent, hist>>

\* smol::run(render_tui) panics: the thread unwinds and its Sender is dropped
\* without a send.
UiPanic ==
  /\ ui = "running"
  /\ ui' = "panicked"
  /\ UNCHANGED <<flags, pc, comp, chan, rx_alive, sub_progress, user_exit, res,
                 sinks, streams, received, retval, renderer, threads,
                 invocations, sent, hist>>

\* send on an unbounded channel (mpsc::channel): it never blocks.
CanSendUnbounded == TRUE

\* send on a rendezvous channel (sync_channel(0)): it completes only while the
\* coordinator waits in recv.
CanSendRendezvous == ~rx_alive \/ (chan = <<>> /\ pc = "recv")

\* SyncSender::send: blocks while the buffer is full and the Receiver lives.
CanSend == ~rx_alive \/ Len(chan) < ChannelCapacity

\* tx.send(Event::UIDone).ok(): an error (Receiver dropped) is ignored.
UiSend ==
  /\ ui = "exited"
  /\ CanSend
  /\ IF rx_alive
       THEN chan' = Append(chan, UIDone) /\ sent' = Append(sent, "UIDone")
       ELSE UNCHANGED <<chan, sent>>
  /\ ui' = "done"
  /\ UNCHANGED <<flags, pc, comp, rx_alive, sub_progress, user_exit, res, sinks,
                 streams, received, retval, renderer, threads, invocations,
                 hist>>

\* ---------------------------------------------------- computation thread
\* The closure writes one byte to its stdout sink, the Vec `out`.
CompWriteOut ==
  /\ comp = "running"
  /\ Len(out) < MaxLen
  /\ \E b \in Byte : out' = Append(out, b)
  /\ UNCHANGED <<flags, pc, ui, comp, chan, rx_alive, sub_progress, user_exit,
                 res, err, streams, received, retval, renderer, threads,
                 invocations, sent, hist>>

\* The closure writes one byte to its stderr sink, the Vec `err`.
CompWriteErr ==
  /\ comp = "running"
  /\ Len(err) < MaxLen
  /\ \E b \in Byte : err' = Append(err, b)
  /\ UNCHANGED <<flags, pc, ui, comp, chan, rx_alive, sub_progress, user_exit,
                 res, out, streams, received, retval, renderer, threads,
                 invocations, sent, hist>>

\* let res = run(Some(sub_progress), &mut out, &mut err): the closure returns
\* and the progress item it owned is dropped, which empties the tree.
CompReturn ==
  /\ comp = "running"
  /\ \E r \in ClosureResults : res' = r
  /\ sub_progress' = "dropped"
  /\ comp' = "finished"
  /\ hist' = [hist EXCEPT !.exit_at_return = user_exit]
  /\ UNCHANGED <<flags, pc, ui, chan, rx_alive, user_exit, sinks, streams,
                 received, retval, renderer, threads, invocations, sent>>

\* The closure panics: the thread unwinds, which drops the progress item and
\* the Sender without a send.
CompPanic ==
  /\ comp = "running"
  /\ sub_progress' = "dropped"
  /\ comp' = "panicked"
  /\ UNCHANGED <<flags, pc, ui, chan, rx_alive, user_exit, res, sinks, streams,
                 received, retval, renderer, threads, invocations, sent, hist>>

\* tx.send(Event::ComputationDone(res, out, err)).ok()
CompSend ==
  /\ comp = "finished"
  /\ CanSend
  /\ IF rx_alive
       THEN /\ chan' = Append(chan, ComputationDone(res, out, err))
            /\ sent' = Append(sent, "ComputationDone")
       ELSE UNCHANGED <<chan, sent>>
  /\ comp' = "done"
  /\ UNCHANGED <<flags, pc, ui, rx_alive, sub_progress, user_exit, res, sinks,
                 streams, received, retval, renderer, threads, invocations,
                 hist>>

\* ------------------------------------------------------- specifications
\* A step of the coordinator: of the thread that called prepare_and_run.
CoordinatorStep ==
  \/ FromArgs
  \/ EnterDirect
  \/ EnterLine
  \/ RunWriteOut
  \/ RunWriteErr
  \/ RunReturn
  \/ EnterDashboard
  \/ SpawnUi
  \/ SpawnComputation
  \/ RecvEvent
  \/ RecvDisconnected
  \/ JoinUi
  \/ WriteStdout
  \/ WriteStderr
  \/ ReturnRes


Next ==
  \/ FromArgs
  \/ EnterDirect
  \/ EnterLine
  \/ RunWriteOut
  \/ RunWriteErr
  \/ RunReturn
  \/ EnterDashboard
  \/ SpawnUi
  \/ SpawnComputation
  \/ RecvEvent
  \/ RecvDisconnected
  \/ JoinUi
  \/ WriteStdout
  \/ WriteStderr
  \/ ReturnRes
  \/ OperatorExit
  \/ UiLoopExit
  \/ UiPanic
  \/ UiSend
  \/ CompWriteOut
  \/ CompWriteErr
  \/ CompReturn
  \/ CompPanic
  \/ CompSend

Spec == Init /\ [][Next]_vars

\* The scheduler runs every started thread: each step of the coordinator, of
\* the dashboard thread and of the computation thread that is enabled is
\* eventually taken.  Nothing forces the operator to act, the closure to
\* return, a write to succeed or a thread to panic.
FairSpec ==
  /\ Spec
  /\ WF_vars(FromArgs \/ EnterDirect \/ EnterLine \/ EnterDashboard)
  /\ WF_vars(SpawnUi \/ SpawnComputation)
  /\ WF_vars(RecvEvent \/ RecvDisconnected)
  /\ WF_vars(JoinUi \/ WriteStdout \/ WriteStderr \/ ReturnRes)
  /\ WF_vars(UiLoopExit)
  /\ WF_vars(UiSend)
  /\ WF_vars(CompSend)

TypeOK ==
  /\ pc \in {"from_args", "usage_error", "prepare_and_run", "run", "spawn_ui",
             "spawn_computation", "recv", "join", "write_stdout",
             "write_stderr", "result", "returned"}
  /\ ui \in {"unspawned", "running", "exited", "done", "panicked"}
  /\ comp \in {"unspawned", "running", "finished", "done", "panicked"}
  /\ Len(chan) <= ChannelCapacity

\* ------------------------------------------------------------ properties
InDashboard == progress /\ pc \notin {"from_args", "usage_error", "prepare_and_run"}
Returned == pc = "returned"
IsOutcome(r) == r.kind \in {"Success", "Failure"}
ClosureReturned == comp \in {"finished", "done"}

\* C1: in Dashboard mode, if the closure returned before any operator exit
\* request, prepare_and_run returns exactly the closure's result and never the
\* Cancelled error.
C1_OutcomeIfCompletedBeforeCancel ==
  (InDashboard /\ Returned /\ ClosureReturned /\ ~hist.exit_at_return)
    => retval = res

\* C2: in Dashboard mode, if the operator closed the dashboard and UIDone was
\* sent before ComputationDone, then once the coordinator is past its receive
\* it has returned the Cancelled error, whatever the closure does.
C2_CancelledIfUiDoneFirst ==
  (InDashboard /\ user_exit /\ sent # <<>> /\ Head(sent) = "UIDone")
    => \/ pc \in {"spawn_computation", "recv"}
       \/ Returned /\ retval = Cancelled

C2_Witness ==
  /\ InDashboard /\ Returned /\ retval = Cancelled
  /\ user_exit /\ sent = <<"UIDone">>
  /\ comp = "done" /\ res.kind = "Success"

\* C3: prepare_and_run returns the Cancelled error only if the operator had
\* asked the dashboard to exit before the coordinator's receive.
C3_CancelledOnlyByOperator ==
  (Returned /\ retval = Cancelled) => hist.exit_at_recv

\* C4 as stated: with progress=true the real streams hold exactly the bytes
\* the closure wrote to its sinks once prepare_and_run has returned, and
\* nothing before.
C4_BytesExactlyAfterReturn ==
  InDashboard =>
    /\ Returned => (real_stdout = out /\ real_stderr = err)
    /\ ~Returned => (real_stdout = <<>> /\ real_stderr = <<>>)

\* C4 as amended: with progress=true, when prepare_and_run returns the
\* closure's result the real streams hold exactly the bytes the closure wrote
\* to its sinks; when it returns Cancelled or the communication error they hold
\* none of them; and no byte reaches a real stream before ComputationDone was
\* received and the dashboard thread has ended.
C4_BytesExactlyWithOutcome ==
  InDashboard =>
    /\ (Returned /\ IsOutcome(retval)) =>
         (real_stdout = out /\ real_stderr = err)
    /\ (Returned /\ retval \in {Cancelled, CommError}) =>
         (real_stdout = <<>> /\ real_stderr = <<>>)
    /\ (real_stdout # <<>> \/ real_stderr # <<>>) =>
         (received.kind = "ComputationDone" /\ Ended(ui)
            /\ pc \in {"write_stderr", "result", "returned"})

C4_Witness ==
  /\ InDashboard /\ Returned /\ retval.kind = "Success"
  /\ ~progress_keep_open
  /\ real_stdout # <<>> /\ real_stderr # <<>> /\ real_stdout # real_stderr

\* C5 as stated: with progress=false no thread is started and the closure's
\* sinks are the real streams.
C5_NoThreadNoBuffer ==
  ~progress =>
    /\ threads = <<>>
    /\ real_stdout = out /\ real_stderr = err

\* C5 as amended: with progress=false the coordinator starts neither the
\* dashboard thread nor a computation thread and the closure's sinks are the
\* real streams (every byte is on the real stream as soon as it is written);
\* in Direct mode no thread at all is started, in Line-Progress mode only the
\* line renderer's.
C5_NoCoordinatorThreadNoBuffer ==
  ~progress =>
    /\ ui = "unspawned" /\ comp = "unspawned"
    /\ ~rx_alive /\ chan = <<>>
    /\ real_stdout = out /\ real_stderr = err
    /\ threads = IF verbose /\ pc \in {"run", "returned"}
                   THEN setup_line_renderer ELSE <<>>

C5_Witness ==
  /\ ~progress /\ verbose /\ Returned
  /\ Len(real_stdout) > 0 /\ Len(real_stderr) > 0

\* C6: in Direct mode the closure runs on the calling thread without a
\* progress item, and prepare_and_run returns what the closure returned, never
\* Cancelled nor a communication error.
C6_DirectReturnsResult ==
  (~verbose /\ ~progress) =>
    /\ sub_progress = "none"
    /\ threads = <<>>
    /\ invocations = (IF pc \in {"run", "returned"} THEN 1 ELSE 0)
    /\ Returned => (retval = res /\ retval \in ClosureResults)

C6_Witness ==
  /\ ~verbose /\ ~progress /\ Returned
  /\ retval = Failure(1)

\* C7 as stated: with progress_keep_open the dashboard loop exits and UIDone is
\* sent only after an operator exit request, and after ComputationDone was
\* received the coordinator gets past the join only after the operator closed
\* the dashboard.
C7_KeepOpenNeedsOperator ==
  (InDashboard /\ progress_keep_open) =>
    /\ ui \in {"exited", "done"} => user_exit
    /\ (\E i \in 1..Len(sent) : sent[i] = "UIDone") => user_exit
    /\ (received.kind = "ComputationDone" /\ pc # "join") => user_exit

\* C7 as amended: with progress_keep_open the dashboard loop exits and UIDone
\* is sent only after an operator exit request, and after ComputationDone was
\* received the coordinator gets past the join only after the dashboard thread
\* has ended: after the operator closed the dashboard, or after that thread
\* panicked.
C7_KeepOpenNeedsOperatorOrPanic ==
  (InDashboard /\ progress_keep_open) =>
    /\ ui \in {"exited", "done"} => user_exit
    /\ (\E i \in 1..Len(sent) : sent[i] = "UIDone") => user_exit
    /\ (received.kind = "ComputationDone" /\ pc # "join") =>
         (user_exit /\ ui = "done") \/ ui = "panicked"

C7_Witness ==
  /\ InDashboard /\ progress_keep_open /\ Returned
  /\ received.kind = "ComputationDone" /\ retval = res
  /\ user_exit /\ ui = "done" /\ ~hist.exit_at_recv

\* C8: without progress_keep_open, once the closure has returned the dashboard
\* thread eventually ends and prepare_and_run eventually returns, with no step
\* of the operator needed.
C8_AutoCloseReturns ==
  (InDashboard /\ ~progress_keep_open /\ comp = "finished")
    ~> (Returned /\ Ended(ui))

C8_Witness ==
  /\ InDashboard /\ ~progress_keep_open /\ Returned
  /\ ~user_exit /\ ui = "done" /\ comp = "done"
  /\ retval = res

\* C9: a command line with both --verbose and --progress is rejected by the
\* argument parser: prepare_and_run is never entered, the closure is never
\* invoked, nothing is started and nothing is returned.
C9_VerboseProgressRejected ==
  (verbose /\ progress) =>
    /\ pc \in {"from_args", "usage_error"}
    /\ invocations = 0
    /\ threads = <<>>
    /\ sub_progress = "none"
    /\ retval = NoResult

C9_Witness == verbose /\ progress /\ pc = "usage_error"

\* C10: prepare_and_run returns the communication error exactly when it
\* returns in Dashboard mode without any event having been sent, and then both
\* the dashboard thread and the computation thread have panicked.
C10_CommErrorIffNoSender ==
  Returned =>
    /\ retval = CommError <=> (progress /\ sent = <<>>)
    /\ retval = CommError =>
         (ui = "panicked" /\ comp = "panicked" /\ received = NoResult)

C10_Witness ==
  /\ Returned /\ retval = CommError
  /\ ui = "panicked" /\ comp = "panicked"

\* C11 as stated: after ComputationDone was received the dashboard thread has
\* ended before the coordinator writes, the whole of `out` is on the real
\* stdout before anything is on the real stderr, prepare_and_run returns only
\* after both buffers were written, and nothing is on a real stream while the
\* dashboard loop runs.
C11_JoinThenStdoutThenStderrThenReturn ==
  InDashboard =>
    /\ (pc \in {"write_stdout", "write_stderr", "result"}
          \/ (Returned /\ received.kind = "ComputationDone")) => Ended(ui)
    /\ real_stderr # <<>> => real_stdout = received.out
    /\ (Returned /\ received.kind = "ComputationDone") =>
         (real_stdout = received.out /\ real_stderr = received.err)
    /\ ui \in {"running", "exited"} => (real_stdout = <<>> /\ real_stderr = <<>>)

\* C11 as amended: the same order, with prepare_and_run returning the
\* closure's result only after both buffers were written in full; a write that
\* fails makes it return the i/o error at once, after a failed stdout write
\* with nothing on the real stderr.
C11_JoinThenStdoutThenStderrThenResult ==
  InDashboard =>
    /\ (pc \in {"write_stdout", "write_stderr", "result"}
          \/ (Returned /\ received.kind = "ComputationDone")) => Ended(ui)
    /\ real_stderr # <<>> => real_stdout = received.out
    /\ (Returned /\ received.kind = "ComputationDone" /\ retval # IoError) =>
         (real_stdout = received.out /\ real_stderr = received.err
            /\ retval = received.res)
    /\ (Returned /\ retval = IoError) =>
         (real_stdout # received.out \/ real_stderr # received.err)
    /\ ui \in {"running", "exited"} => (real_stdout = <<>> /\ real_stderr = <<>>)

C11_Witness ==
  /\ InDashboard /\ pc = "result" /\ ui = "done"
  /\ Len(real_stdout) = Len(out) /\ Len(out) > 0
  /\ Len(real_stderr) = Len(err) /\ Len(err) > 0

Count(s, k) == Cardinality({i \in 1..Len(s) : s[i] = k})
PastRecv == pc \in {"join", "write_stdout", "write_stderr", "result", "returned"}
Consumed == IF received = NoResult THEN 0 ELSE 1

\* C12 as stated: in Dashboard mode at most one UIDone and at most one
\* ComputationDone are sent, the coordinator consumes exactly one event, the
\* first one sent, and an event sent second is never taken from the channel
\* and has no part in the value returned.
C12_ExactlyOneEventConsumed ==
  InDashboard =>
    /\ Count(sent, "UIDone") <= 1 /\ Count(sent, "ComputationDone") <= 1
    /\ rx_alive => Len(sent) - Len(chan) = Consumed
    /\ PastRecv => (Consumed = 1 /\ received.kind = Head(sent))
    /\ (Returned /\ received.kind = "UIDone") => retval = Cancelled
    /\ (Returned /\ received.kind = "ComputationDone") =>
         retval \in {received.res, IoError}

\* C12 as amended: the same, with the coordinator consuming at most one event,
\* and exactly one unless it returns the communication error, in which case no
\* event was sent and none consumed.
C12_OneEventConsumedUnlessCommError ==
  InDashboard =>
    /\ Count(sent, "UIDone") <= 1 /\ Count(sent, "ComputationDone") <= 1
    /\ rx_alive => Len(sent) - Len(chan) = Consumed
    /\ (PastRecv /\ retval # CommError) =>
         (Consumed = 1 /\ received.kind = Head(sent))
    /\ (PastRecv /\ retval = CommError) => (Consumed = 0 /\ sent = <<>>)
    /\ (Returned /\ received.kind = "UIDone") => retval = Cancelled
    /\ (Returned /\ received.kind = "ComputationDone") =>
         retval \in {received.res, IoError}

C12_Witness ==
  /\ InDashboard /\ Returned
  /\ sent = <<"ComputationDone", "UIDone">>
  /\ received.kind = "ComputationDone" /\ retval = received.res

\* C13: at most one event is sent on the channel and not yet received, in
\* every reachable state; a second sender waits until the slot is free or the
\* Receiver is gone.
C13_AtMostOnePending ==
  /\ Len(chan) <= 1
  /\ ~rx_alive => chan = <<>>

C13_Witness ==
  /\ InDashboard /\ pc = "recv"
  /\ Len(chan) = 1 /\ chan[1].kind = "ComputationDone"
  /\ ui = "exited" /\ comp = "done"

CoordinatorEnded == pc \in {"usage_error", "returned"}
CoordinatorBlocked == ~CoordinatorEnded /\ ~ENABLED CoordinatorStep

\* C14 as stated: in Dashboard mode the coordinator waits for another thread
\* at rx.recv() only; at every other position, the one after ComputationDone
\* was received included, it can take its next step.
C14_BlocksOnlyAtRecv ==
  (InDashboard /\ CoordinatorBlocked) => pc = "recv"

\* C14 as amended: in Dashboard mode the coordinator waits for another thread
\* at two positions only: at rx.recv(), while there is no event and a Sender
\* lives, and, after ComputationDone was received, at ui_handle.join(), while
\* the dashboard thread has not ended.
C14_BlocksOnlyAtRecvAndJoin ==
  InDashboard =>
    /\ CoordinatorBlocked => pc \in {"recv", "join"}
    /\ (pc = "recv" /\ CoordinatorBlocked)
         <=> (pc = "recv" /\ chan = <<>> /\ ~(Ended(ui) /\ Ended(comp)))
    /\ (pc = "join" /\ CoordinatorBlocked) <=> (pc = "join" /\ ~Ended(ui))

C14_Witness ==
  /\ InDashboard /\ pc = "join" /\ CoordinatorBlocked
  /\ received.kind = "ComputationDone"
  /\ progress_keep_open /\ ui = "running" /\ comp = "done"

\* C15: in Dashboard mode, once UIDone was received prepare_and_run has
\* returned Cancelled, whatever the computation thread is doing; that thread is
\* not stopped (while it runs the closure it can still write and return), its
\* ComputationDone is never taken by the coordinator, and none of the bytes it
\* wrote is ever on the real stdout or stderr.
C15_CancelledAbandonsComputation ==
  (InDashboard /\ received.kind = "UIDone") =>
    /\ Returned /\ retval = Cancelled
    /\ ~rx_alive /\ chan = <<>>
    /\ Count(sent, "ComputationDone") = 0
    /\ real_stdout = <<>> /\ real_stderr = <<>>
    /\ comp = "running" => ENABLED CompReturn
    /\ comp = "finished" => ENABLED CompSend

C15_Witness ==
  /\ InDashboard /\ Returned /\ retval = Cancelled
  /\ received.kind = "UIDone"
  /\ comp = "running" /\ out # <<>> /\ err # <<>>

\* C16: in every strategy the closure is invoked at most once, and once
\* prepare_and_run is past its setup exactly once: by the calling thread in
\* Direct and Line-Progress mode, on the computation thread in Dashboard mode.
C16_ClosureInvokedOnce ==
  /\ invocations <= 1
  /\ (pc = "run" \/ Returned \/ (InDashboard /\ (pc = "recv" \/ PastRecv)))
       <=> invocations = 1
  /\ (invocations = 1 /\ ~progress) =>
       (comp = "unspawned" /\ Count(threads, "computation") = 0)
  /\ (invocations = 1 /\ progress) =>
       (comp # "unspawned" /\ Count(threads, "computation") = 1)
  /\ pc = "run" => ~progress

C16_Witness ==
  /\ InDashboard /\ Returned /\ invocations = 1
  /\ threads = <<"ui", "computation">> /\ comp = "done"

\* C17: in Line-Progress mode the line renderer is alive, and the closure has
\* its progress item, from the moment the closure is invoked until it
\* returns; when prepare_and_run has returned, with Success or with Failure,
\* the renderer handle is dropped and the value returned is the closure's.
C17_LineRendererScoped ==
  (verbose /\ ~progress) =>
    /\ renderer = "none" => invocations = 0
    /\ pc = "run" =>
         (renderer = "alive" /\ sub_progress = "live" /\ invocations = 1)
    /\ Returned =>
         (renderer = "dropped" /\ retval = res /\ retval \in ClosureResults)

C17_Witness ==
  /\ verbose /\ ~progress /\ Returned
  /\ renderer = "dropped" /\ retval.kind = "Failure"
  /\ out # <<>>

\* C18: whenever the closure returned Failure(e) and the coordinator took its
\* ComputationDone, or ran the closure itself, prepare_and_run returns
\* exactly Failure(e), also when a write of the buffers to the real streams
\* fails.
C18_FailureSurfacedVerbatim ==
  Returned =>
    /\ (InDashboard /\ received.kind = "ComputationDone"
          /\ received.res.kind = "Failure") => retval = received.res
    /\ (~progress /\ res.kind = "Failure") => retval = res

\* C19: no send blocks forever.  After ComputationDone was received the
\* dashboard thread's send can complete as soon as its loop has exited, with
\* no receive needed, and the join then ends; after prepare_and_run returned,
\* the computation thread's send can complete (or fail) as soon as the closure
\* has returned; and every thread that has reached its send ends.
C19_SendsNeverBlockForever ==
  /\ []((InDashboard /\ received.kind = "ComputationDone" /\ ui = "exited")
          => ENABLED UiSend)
  /\ []((InDashboard /\ Returned /\ comp = "finished") => ENABLED CompSend)
  /\ (ui = "exited") ~> (ui = "done")
  /\ (comp = "finished") ~> (comp = "done")
  /\ (pc = "join" /\ ui = "exited") ~> (pc # "join")

C19_Witness ==
  /\ InDashboard /\ pc = "write_stdout"
  /\ received.kind = "ComputationDone"
  /\ sent = <<"ComputationDone", "UIDone">>
  /\ Len(chan) = 1 /\ chan[1].kind = "UIDone"
  /\ ui = "done"

\* C20: when prepare_and_run has returned in Dashboard mode with Cancelled or
\* with the closure's result, the dashboard loop has exited and its thread has
\* ended; the computation thread can still be running, or not yet have sent,
\* only if the value returned is Cancelled.
C20_DashboardGoneAtReturn ==
  (InDashboard /\ Returned /\ (retval = Cancelled \/ IsOutcome(retval))) =>
    /\ Ended(ui)
    /\ retval = Cancelled => ui = "done"
    /\ comp \in {"running", "finished"} => retval = Cancelled
    /\ IsOutcome(retval) => comp = "done"

C20_Witness ==
  /\ InDashboard /\ Returned /\ retval = Cancelled
  /\ user_exit /\ ui = "done" /\ comp = "finished"
====
